---- MODULE Spec2Model ----
(***************************************************************************)
(* BBMRStrategy (bb-mean-reversion-strategy.py): the Bollinger-band mean   *)
(* reversion policy, as the three callbacks next / notify_order /          *)
(* notify_trade over its two order references, driven by an engine that    *)
(* owns the order records, the position and the notification queue.        *)
(*                                                                         *)
(* The engine (backtrader's cerebro and broker) is not part of the         *)
(* repository. It is modelled from the interface the policy uses: an order *)
(* is Submitted when the policy submits it and then moves, at times the    *)
(* engine chooses, to Accepted and on to Completed or Expired, or from     *)
(* Submitted to Margin or Rejected; a cancel takes effect at once on an    *)
(* order that is still alive; every change queues a notification carrying  *)
(* the status at that moment; the queue is delivered in order and is empty *)
(* when a new bar is delivered.                                            *)
(***************************************************************************)
EXTENDS Integers, Sequences, FiniteSets

VARIABLES
    entry_order,    \* self.entry_order: None or the reference of an order
    profit_order,   \* self.profit_order: None or the reference of an order
    bar_executed,   \* self.bar_executed: None or a bar index
    debug,          \* self.params.debug
    nbars,          \* len(self): bars delivered so far
    position,       \* self.position.size, owned by the engine
    orders,         \* the engine's order records, indexed by reference
    notifs,         \* notifications the engine has still to deliver
    ev,             \* the callback that returned last, with the state it started in
    calls,          \* the broker calls that callback made, in order
    printed         \* the lines that callback printed, in order

vars == <<entry_order, profit_order, bar_executed, debug, nbars, position,
          orders, notifs, ev, calls, printed>>

----------------------------------------------------------------------------
(* Bounds of the model. *)

MaxBars == 3        \* new-bar callbacks in a run
MaxPrice == 4       \* close and midBand range over 1..MaxPrice
MaxDev == 1         \* the rolling standard deviation ranges over 0..MaxDev
MaxNotifs == 3      \* notifications waiting for delivery

(* Program constants. *)

None == 0           \* Python's None; order references start at 1
stddev == 2         \* params: ("stddev", 2), the band multiplier

Submitted == "Submitted"
Accepted == "Accepted"
Completed == "Completed"
Canceled == "Canceled"
Expired == "Expired"
Margin == "Margin"
Rejected == "Rejected"

Stop == "Stop"
Limit == "Limit"

----------------------------------------------------------------------------
(* log(txt, doprint): the line is printed when debug or doprint. A line is *)
(* modelled by the fixed part of its text.                                 *)

logAlways(txt, doprint) == <<txt>>

log(txt, doprint) ==
    IF debug \/ doprint THEN <<txt>> ELSE <<>>

(* The lines log() prints for the texts txts, in order. *)

RECURSIVE LogAll(_, _)
LogAll(txts, doprint) ==
    IF txts = <<>> THEN <<>>
    ELSE log(Head(txts), doprint) \o LogAll(Tail(txts), doprint)

(* One broker call: cancel(ref), or sell/buy(exectype, price) returning ref. *)

Call(op, exectype, price, ref) ==
    [op |-> op, exectype |-> exectype, price |-> price, ref |-> ref]

(* The record the engine keeps of an order the policy has just submitted. *)

Order(side, exectype) ==
    [side |-> side, exectype |-> exectype, status |-> Submitted]

StatusOf(ref) ==
    IF ref = None THEN "" ELSE orders[ref].status

Alive(o) == o.status \in {Submitted, Accepted}

(* BollingerBands(period, devfactor): top and bot around mid. *)

BandTop(mid, sd) == mid + stddev * sd
BandBot(mid, sd) == mid - stddev * sd

----------------------------------------------------------------------------
(* What a callback leaves in ev: its name, its arguments and the state it  *)
(* started in. Fields a callback does not have are 0, "" or FALSE.         *)

Event(name, close, top, mid, bot, ref, status, isbuy, isclosed) ==
    [name |-> name,
     e0 |-> entry_order, est |-> StatusOf(entry_order),
     p0 |-> profit_order, pst |-> StatusOf(profit_order),
     b0 |-> bar_executed, n0 |-> Len(orders), size |-> position,
     close |-> close, top |-> top, mid |-> mid, bot |-> bot,
     ref |-> ref, status |-> status, isbuy |-> isbuy, isclosed |-> isclosed]

Idle(name) == Event(name, 0, 0, 0, 0, None, "", FALSE, FALSE)

(* A notification in the engine's queue: an order's status as it was when  *)
(* the engine queued it, or a trade.                                       *)

OrderNotif(ref, status) ==
    [kind |-> "order", ref |-> ref, status |-> status, isclosed |-> FALSE]

TradeNotif(isclosed) ==
    [kind |-> "trade", ref |-> None, status |-> "", isclosed |-> isclosed]

----------------------------------------------------------------------------
(* next(), lines 86-93: the references carried into the bar.               *)

EntryCancelAlways(e, st) ==
    IF e # None
    THEN <<Call("cancel", "", 0, e)>>
    ELSE <<>>

EntryCancel(e, st) ==
    IF e # None /\ st \in {Accepted}
    THEN <<Call("cancel", "", 0, e)>>
    ELSE <<>>

ProfitCancelIfAccepted(p, st) ==
    IF p # None /\ st \in {Accepted}
    THEN <<Call("cancel", "", 0, p)>>
    ELSE <<>>

ProfitCancel(p, st) ==
    IF p # None
    THEN <<Call("cancel", "", 0, p)>>
    ELSE <<>>

(* Lines 89 and 93: a reference that was set is cleared. *)

ClearedNever(r) == r

Cleared(r) ==
    IF r # None THEN None ELSE r

(* next(), lines 95-109: the orders of the bar, each with the line logged  *)
(* before it and the reference it is stored in.                            *)

Req(txt, op, exectype, price, slot) ==
    [txt |-> txt, op |-> op, exectype |-> exectype, price |-> price, slot |-> slot]

EntrySignalsSellAtBot(close, top, bot) ==
    (IF close > top
     THEN <<Req("SIGNAL:ENTRY Sell", "sell", Stop, bot, "entry")>>
     ELSE <<>>)
    \o
    (IF close < bot
     THEN <<Req("SIGNAL:ENTRY Buy", "buy", Stop, bot, "entry")>>
     ELSE <<>>)

EntrySignalsBuyAtTop(close, top, bot) ==
    (IF close > top
     THEN <<Req("SIGNAL:ENTRY Sell", "sell", Stop, top, "entry")>>
     ELSE <<>>)
    \o
    (IF close < bot
     THEN <<Req("SIGNAL:ENTRY Buy", "buy", Stop, top, "entry")>>
     ELSE <<>>)

EntrySignalsNotStrict(close, top, bot) ==
    (IF close >= top
     THEN <<Req("SIGNAL:ENTRY Sell", "sell", Stop, top, "entry")>>
     ELSE <<>>)
    \o
    (IF close <= bot
     THEN <<Req("SIGNAL:ENTRY Buy", "buy", Stop, bot, "entry")>>
     ELSE <<>>)

EntrySignals(close, top, bot) ==
    (IF close > top
     THEN <<Req("SIGNAL:ENTRY Sell", "sell", Stop, top, "entry")>>
     ELSE <<>>)
    \o
    (IF close < bot
     THEN <<Req("SIGNAL:ENTRY Buy", "buy", Stop, bot, "entry")>>
     ELSE <<>>)

ExitSignalsSameSide(size, mid) ==
    IF size > 0
    THEN <<Req("SIGNAL:EXIT, BUY", "buy", Limit, mid, "profit")>>
    ELSE <<Req("SIGNAL:EXIT, SELL", "sell", Limit, mid, "profit")>>

ExitSignals(size, mid) ==
    IF size > 0
    THEN <<Req("SIGNAL:EXIT, SELL", "sell", Limit, mid, "profit")>>
    ELSE <<Req("SIGNAL:EXIT, BUY", "buy", Limit, mid, "profit")>>

(* Line 95: `not self.position` is size = 0. *)

SignalsNoElse(size, close, top, mid, bot) ==
    EntrySignals(close, top, bot)
    \o (IF size # 0 THEN ExitSignals(size, mid) ELSE <<>>)

Signals(size, close, top, mid, bot) ==
    IF size = 0
    THEN EntrySignals(close, top, bot)
    ELSE ExitSignals(size, mid)

(* The reference a slot holds once the requests reqs, numbered from n0+1,  *)
(* have been submitted: the last one stored into it, else what it held.    *)

RECURSIVE Stored(_, _, _, _)
Stored(reqs, n0, slot, held) ==
    IF reqs = <<>> THEN held
    ELSE IF reqs[Len(reqs)].slot = slot THEN n0 + Len(reqs)
    ELSE Stored(SubSeq(reqs, 1, Len(reqs) - 1), n0, slot, held)

(* broker.cancel(order) at the engine: an order that is still alive is     *)
(* Canceled and the change is notified; a settled order is left as it is.  *)

Cancelled(os, cs) ==
    [i \in DOMAIN os |->
        IF Alive(os[i]) /\ \E k \in DOMAIN cs : cs[k].ref = i
        THEN [os[i] EXCEPT !.status = Canceled]
        ELSE os[i]]

RECURSIVE CancelNotifs(_, _)
CancelNotifs(os, cs) ==
    IF cs = <<>> THEN <<>>
    ELSE (IF Alive(os[Head(cs).ref])
          THEN <<OrderNotif(Head(cs).ref, Canceled)>>
          ELSE <<>>)
         \o CancelNotifs(os, Tail(cs))

(* A settled order that neither reference holds and that no notification   *)
(* waiting for delivery names is garbage: nothing can read it again. The   *)
(* engine keeps its slot and drops its record.                             *)

Gone == [side |-> "", exectype |-> "", status |-> ""]

Collected(os, e, p, ns) ==
    [i \in DOMAIN os |->
        IF /\ ~Alive(os[i])
           /\ i \notin {e, p}
           /\ \A k \in DOMAIN ns : ns[k].ref # i
        THEN Gone
        ELSE os[i]]

(* The new-bar callback. *)

next(close, top, mid, bot) ==
    LET cancels == EntryCancel(entry_order, StatusOf(entry_order))
                   \o ProfitCancel(profit_order, StatusOf(profit_order))
        reqs == Signals(position, close, top, mid, bot)
        n0 == Len(orders)
        submits == [k \in DOMAIN reqs |->
                      Call(reqs[k].op, reqs[k].exectype, reqs[k].price, n0 + k)]
    IN  /\ nbars < MaxBars
        /\ notifs = <<>>
        /\ nbars' = nbars + 1
        /\ ev' = Event("next", close, top, mid, bot, None, "", FALSE, FALSE)
        /\ calls' = cancels \o submits
        /\ printed' = LogAll([k \in DOMAIN reqs |-> reqs[k].txt], FALSE)
        /\ entry_order' = Stored(reqs, n0, "entry", Cleared(entry_order))
        /\ profit_order' = Stored(reqs, n0, "profit", Cleared(profit_order))
        /\ notifs' = CancelNotifs(orders, cancels)
                     \o [k \in DOMAIN reqs |-> OrderNotif(n0 + k, Submitted)]
        /\ orders' = Collected(Cancelled(orders, cancels)
                               \o [k \in DOMAIN reqs |->
                                     Order(reqs[k].op, reqs[k].exectype)],
                               entry_order', profit_order', notifs')
        /\ UNCHANGED <<bar_executed, debug, position>>

----------------------------------------------------------------------------
(* notify_order(order), lines 111-150. order is the notification at the    *)
(* head of the queue: its status is the one the engine queued, while the   *)
(* statuses read through entry_order and profit_order are the current ones.*)

IgnoredOnlySubmitted(status) == status \in {Submitted}

Ignored(status) == status \in {Submitted, Accepted}

ReturnsEarlyNotRejected(status) == status \in {Canceled, Margin}

ReturnsEarly(status) == status \in {Canceled, Margin, Rejected}

FillLine(isbuy) ==
    IF isbuy THEN "BUY EXECUTED" ELSE "SELL EXECUTED"

(* Lines 117-140: the lines logged for the notified status. *)

StatusLines(status, isbuy) ==
    (IF status \in {Expired} THEN log("BUY EXPIRED", FALSE) ELSE <<>>)
    \o
    (IF status \in {Completed} THEN log(FillLine(isbuy), TRUE)
     ELSE IF ReturnsEarly(status) THEN log("Order Canceled/Margin/Rejected", FALSE)
     ELSE <<>>)

(* Line 136: the last-fill index after the notification. *)

BarExecutedOnExpired(status, b, len) ==
    IF status \in {Completed, Expired} THEN len ELSE b

BarExecuted(status, b, len) ==
    IF status \in {Completed} THEN len ELSE b

(* Lines 142-150: the lines logged for the two references, and the exit    *)
(* reference afterwards.                                                   *)

RefLines(e, est, p, pst) ==
    (IF e # None /\ est \in {Completed}
     THEN log("ENTRY ORDER EXECUTED", FALSE) ELSE <<>>)
    \o
    (IF p # None /\ pst \in {Completed}
     THEN log("PROFIT ORDER EXECUTED", FALSE) ELSE <<>>)

ProfitAfterAlways(p, pst) ==
    IF p # None THEN None ELSE p

ProfitAfterNever(p, pst) == p

ProfitAfter(p, pst) ==
    IF p # None /\ pst \in {Completed} THEN None ELSE p

(* Lines 111-150 hold no broker call: whatever the notified status, the    *)
(* callback neither submits nor cancels.                                   *)

NotifyCallsRetry(ref, status) ==
    IF status \in {Margin, Rejected, Expired}
    THEN <<Call("cancel", "", 0, ref)>>
    ELSE <<>>

NotifyCalls(ref, status) == <<>>

notify_order ==
    /\ notifs # <<>>
    /\ Head(notifs).kind = "order"
    /\ LET order == Head(notifs)
           isbuy == orders[order.ref].side = "buy"
           est == StatusOf(entry_order)
           pst == StatusOf(profit_order)
       IN  /\ ev' = Event("notify_order", 0, 0, 0, 0,
                          order.ref, order.status, isbuy, FALSE)
           /\ notifs' = Tail(notifs)
           /\ calls' = NotifyCalls(order.ref, order.status)
           /\ IF Ignored(order.status)
              THEN /\ printed' = <<>>
                   /\ UNCHANGED <<entry_order, profit_order, bar_executed>>
              ELSE IF ReturnsEarly(order.status)
              THEN /\ printed' = StatusLines(order.status, isbuy)
                   /\ UNCHANGED <<entry_order, profit_order, bar_executed>>
              ELSE /\ printed' = StatusLines(order.status, isbuy)
                                 \o RefLines(entry_order, est, profit_order, pst)
                   /\ bar_executed' = BarExecuted(order.status, bar_executed, nbars)
                   /\ profit_order' = ProfitAfter(profit_order, pst)
                   /\ UNCHANGED entry_order
           /\ orders' = Collected(orders, entry_order', profit_order', notifs')
           /\ UNCHANGED <<debug, nbars, position>>

(* notify_trade(trade), lines 152-168. *)

TradeLinesDebugOnly(isclosed) ==
    IF ~isclosed THEN <<>>
    ELSE log("OPERATION PROFIT", FALSE)
         \o (IF isclosed THEN log("Trade Stats", FALSE) ELSE <<>>)

TradeLines(isclosed) ==
    IF ~isclosed THEN <<>>
    ELSE log("OPERATION PROFIT", TRUE)
         \o (IF isclosed THEN log("Trade Stats", TRUE) ELSE <<>>)

notify_trade ==
    /\ notifs # <<>>
    /\ Head(notifs).kind = "trade"
    /\ LET trade == Head(notifs)
       IN  /\ ev' = Event("notify_trade", 0, 0, 0, 0,
                          None, "", FALSE, trade.isclosed)
           /\ notifs' = Tail(notifs)
           /\ calls' = <<>>
           /\ printed' = TradeLines(trade.isclosed)
           /\ UNCHANGED <<entry_order, profit_order, bar_executed,
                          debug, nbars, position, orders>>

----------------------------------------------------------------------------
(* The engine: it moves an order through its statuses and queues a         *)
(* notification for each change.                                           *)

EngineStep(os, ns, pos) ==
    /\ Len(ns) <= MaxNotifs
    /\ orders' = os
    /\ notifs' = ns
    /\ position' = pos
    /\ ev' = Idle("engine")
    /\ calls' = <<>>
    /\ printed' = <<>>
    /\ UNCHANGED <<entry_order, profit_order, bar_executed, debug, nbars>>

SetStatus(i, status) ==
    [orders EXCEPT ![i].status = status]

Accept(i) ==
    /\ orders[i].status = Submitted
    /\ EngineStep(SetStatus(i, Accepted),
                  Append(notifs, OrderNotif(i, Accepted)), position)

Refuse(i, status) ==
    /\ orders[i].status = Submitted
    /\ EngineStep(SetStatus(i, status),
                  Append(notifs, OrderNotif(i, status)), position)

Expire(i) ==
    /\ orders[i].status = Accepted
    /\ EngineStep(SetStatus(i, Expired),
                  Append(notifs, OrderNotif(i, Expired)), position)

(* A fill: the position moves by the order (one unit), and a trade is      *)
(* notified when it opens (from flat) and when it closes (back to flat).   *)

Filled(pos, side) ==
    IF side = "buy" THEN pos + 1 ELSE pos - 1

Complete(i) ==
    /\ orders[i].status = Accepted
    /\ LET pos == Filled(position, orders[i].side)
           trades == IF position = 0 THEN <<TradeNotif(FALSE)>>
                     ELSE IF pos = 0 THEN <<TradeNotif(TRUE)>>
                     ELSE <<>>
       IN  EngineStep(SetStatus(i, Completed),
                      Append(notifs, OrderNotif(i, Completed)) \o trades, pos)

----------------------------------------------------------------------------
(* The bars the feed can produce: close and midBand in 1..MaxPrice, the    *)
(* bands stddev deviations around midBand.                                 *)

Bars ==
    { [close |-> c, mid |-> m, top |-> BandTop(m, sd), bot |-> BandBot(m, sd)] :
        c \in 1..MaxPrice, m \in 1..MaxPrice, sd \in 0..MaxDev }

Init ==
    /\ entry_order = None
    /\ profit_order = None
    /\ bar_executed = None
    /\ debug \in BOOLEAN
    /\ nbars = 0
    /\ position = 0
    /\ orders = <<>>
    /\ notifs = <<>>
    /\ ev = Idle("init")
    /\ calls = <<>>
    /\ printed = <<>>

Next ==
    \/ \E b \in Bars : next(b.close, b.top, b.mid, b.bot)
    \/ notify_order
    \/ notify_trade
    \/ \E i \in DOMAIN orders : Accept(i)
    \/ \E i \in DOMAIN orders : \E s \in {Margin, Rejected} : Refuse(i, s)
    \/ \E i \in DOMAIN orders : Expire(i)
    \/ \E i \in DOMAIN orders : Complete(i)

Spec == Init /\ [][Next]_vars

----------------------------------------------------------------------------
(* Properties. Each is read in the state a callback leaves: ev holds the   *)
(* callback's name, its arguments and the state it started in.             *)

AfterNext == ev.name = "next"

(* The positions in calls of the orders the callback submitted. *)
Submits == {k \in DOMAIN calls : calls[k].op \in {"buy", "sell"}}

(* The positions in calls of the cancel requests for the order ref. *)
CancelsOf(ref) == {k \in DOMAIN calls : calls[k] = Call("cancel", "", 0, ref)}

(* A stop entry order that is still unsettled at the engine and has not    *)
(* been cancelled.                                                         *)
LiveEntry(i) == orders[i].exectype = Stop /\ Alive(orders[i])

(* C1: there are never two live entry orders at the same time: at most one *)
(* stop entry order is unsettled (Submitted or Accepted) and not cancelled.*)
(* The code cancels a carried entry order only when it is Accepted: one    *)
(* that is still Submitted is dropped without a cancel and stays live      *)
(* while the same bar submits the next entry order.                        *)
C1_OneLiveEntry ==
    Cardinality({i \in DOMAIN orders : LiveEntry(i)}) <= 1

(* C2: after a new-bar callback that started flat with close > upperBand,  *)
(* a sell stop priced at upperBand was submitted and is the entry order    *)
(* reference, and no buy stop was submitted.                               *)
C2_SellStopAtUpperBand ==
    (AfterNext /\ ev.size = 0 /\ ev.close > ev.top) =>
        /\ entry_order > ev.n0
        /\ \E k \in Submits : calls[k] = Call("sell", Stop, ev.top, entry_order)
        /\ \A k \in Submits : ~(calls[k].op = "buy" /\ calls[k].exectype = Stop)
        /\ orders[entry_order].side = "sell"

C2_Witness ==
    /\ AfterNext /\ ev.size = 0 /\ ev.close > ev.top /\ ev.top > ev.bot
    /\ entry_order # None

(* C3: after a new-bar callback that started flat with close < lowerBand,  *)
(* a buy stop priced at lowerBand was submitted and the entry order        *)
(* reference is that order.                                                *)
C3_BuyStopAtLowerBand ==
    (AfterNext /\ ev.size = 0 /\ ev.close < ev.bot) =>
        /\ entry_order > ev.n0
        /\ \E k \in Submits : calls[k] = Call("buy", Stop, ev.bot, entry_order)
        /\ orders[entry_order].side = "buy"
        /\ orders[entry_order].exectype = Stop

C3_Witness ==
    /\ AfterNext /\ ev.size = 0 /\ ev.close < ev.bot /\ ev.top > ev.bot
    /\ entry_order # None

(* C4: a new-bar callback that started flat with upperBand >= lowerBand    *)
(* submitted at most one order, and none at all, leaving both references   *)
(* null, when lowerBand <= close <= upperBand.                             *)
C4_AtMostOneEntry ==
    (AfterNext /\ ev.size = 0 /\ ev.top >= ev.bot) =>
        /\ Cardinality(Submits) <= 1
        /\ (ev.bot <= ev.close /\ ev.close <= ev.top) =>
              /\ Submits = {}
              /\ Len(orders) = ev.n0
              /\ entry_order = None
              /\ profit_order = None

C4_Witness ==
    /\ AfterNext /\ ev.size = 0 /\ ev.close = ev.top /\ ev.e0 # None
    /\ Submits = {} /\ entry_order = None

(* C5: a new-bar callback that started with a non-flat position submitted  *)
(* exactly one order, a limit order at midBand on the side opposite the    *)
(* position, stored as the exit order reference; the entry order reference *)
(* is null.                                                                *)
C5_ExitLimitAtMid ==
    (AfterNext /\ ev.size # 0) =>
        /\ Cardinality(Submits) = 1
        /\ \A k \in Submits :
              calls[k] = Call(IF ev.size > 0 THEN "sell" ELSE "buy",
                              Limit, ev.mid, profit_order)
        /\ profit_order > ev.n0
        /\ Len(orders) = ev.n0 + 1
        /\ entry_order = None

C5_Witness ==
    /\ AfterNext /\ ev.size > 0 /\ ev.e0 # None /\ ev.mid # ev.top
    /\ profit_order # None

(* C6: after notify_order with a Completed order the last-fill index is    *)
(* the current bar index and exactly one fill line was printed, BUY        *)
(* EXECUTED for a buy and SELL EXECUTED otherwise; after any other status  *)
(* the last-fill index is what it was.                                     *)
C6_FillRecorded ==
    ev.name = "notify_order" =>
        IF ev.status = Completed
        THEN /\ bar_executed = nbars
             /\ Cardinality({k \in DOMAIN printed :
                    printed[k] \in {"BUY EXECUTED", "SELL EXECUTED"}}) = 1
             /\ \E k \in DOMAIN printed :
                    printed[k] = (IF ev.isbuy THEN "BUY EXECUTED" ELSE "SELL EXECUTED")
        ELSE bar_executed = ev.b0

C6_Witness ==
    /\ ev.name = "notify_order" /\ ev.status = Completed /\ ev.isbuy
    /\ ev.b0 # nbars /\ bar_executed = nbars
    /\ ~debug /\ printed = <<"BUY EXECUTED">>

(* C7: notify_trade prints nothing for a trade that is not closed and the  *)
(* two trade lines for a closed one, whatever debug is; it leaves both     *)
(* references and the last-fill index as they were and makes no broker     *)
(* call.                                                                   *)
C7_TradeNotification ==
    ev.name = "notify_trade" =>
        /\ printed = (IF ev.isclosed
                      THEN <<"OPERATION PROFIT", "Trade Stats">>
                      ELSE <<>>)
        /\ entry_order = ev.e0
        /\ profit_order = ev.p0
        /\ bar_executed = ev.b0
        /\ calls = <<>>
        /\ Len(orders) = ev.n0

C7_Witness ==
    /\ ev.name = "notify_trade" /\ ev.isclosed /\ ~debug
    /\ entry_order # None /\ bar_executed # None
    /\ Len(printed) = 2

(* C8: a new-bar callback that started with the entry order reference set  *)
(* sent a cancel request for that order if and only if its status was      *)
(* Accepted, and the reference no longer holds that order.                 *)
C8_EntryCancelIffAccepted ==
    (AfterNext /\ ev.e0 # None) =>
        /\ (CancelsOf(ev.e0) # {}) <=> (ev.est = Accepted)
        /\ entry_order # ev.e0

C8_Witness ==
    /\ AfterNext /\ ev.e0 # None /\ ev.est = Accepted
    /\ CancelsOf(ev.e0) # {}
    /\ entry_order # None

(* C9: a new-bar callback that started with the exit order reference set   *)
(* sent a cancel request for that order, whatever its status, before any   *)
(* order it submitted, and the reference no longer holds that order.       *)
C9_ProfitCancelAlways ==
    (AfterNext /\ ev.p0 # None) =>
        /\ \E k \in CancelsOf(ev.p0) : \A j \in Submits : k < j
        /\ profit_order # ev.p0

C9_Witness ==
    /\ AfterNext /\ ev.p0 # None /\ ev.pst = Margin
    /\ CancelsOf(ev.p0) # {} /\ Submits # {}

(* C10: after a new-bar callback each reference is null or holds an order  *)
(* submitted by that callback, never one of an earlier bar.                *)
C10_NoReuseAcrossBars ==
    AfterNext =>
        /\ (entry_order = None \/ entry_order > ev.n0)
        /\ (profit_order = None \/ profit_order > ev.n0)

C10_Witness ==
    /\ AfterNext /\ ev.e0 # None /\ ev.est = Completed
    /\ entry_order = None /\ profit_order > ev.n0

(* C11: after notify_order with a Completed or Expired order, of whichever *)
(* order, the exit order reference is null exactly when it was null        *)
(* before or the order it held was itself Completed, and is otherwise      *)
(* what it was; notify_order never changes the entry order reference,      *)
(* which only a new-bar callback clears.                                   *)
C11_ExitClearedOnOwnCompletion ==
    /\ (ev.name = "notify_order" /\ ev.status \in {Completed, Expired}) =>
          profit_order = (IF ev.p0 # None /\ ev.pst = Completed
                          THEN None ELSE ev.p0)
    /\ ev.name # "next" => entry_order = ev.e0

C11_Witness ==
    /\ ev.name = "notify_order" /\ ev.status = Expired
    /\ ev.p0 # None /\ ev.ref # ev.p0 /\ ev.pst = Completed
    /\ profit_order = None

(* C12: after notify_order with a Canceled, Margin or Rejected order both  *)
(* references and the last-fill index are what they were, also when the    *)
(* exit order reference holds an order that is Completed.                  *)
C12_EarlyReturn ==
    (ev.name = "notify_order" /\ ev.status \in {Canceled, Margin, Rejected}) =>
        /\ entry_order = ev.e0
        /\ profit_order = ev.p0
        /\ bar_executed = ev.b0

C12_Witness ==
    /\ ev.name = "notify_order" /\ ev.status = Rejected
    /\ ev.p0 # None /\ ev.pst = Completed
    /\ profit_order = ev.p0

(* C13: after notify_order with a Submitted or Accepted order nothing has  *)
(* changed: both references and the last-fill index are what they were, no *)
(* line was printed and no broker call was made.                           *)
C13_SubmittedAcceptedIgnored ==
    (ev.name = "notify_order" /\ ev.status \in {Submitted, Accepted}) =>
        /\ entry_order = ev.e0
        /\ profit_order = ev.p0
        /\ bar_executed = ev.b0
        /\ printed = <<>>
        /\ calls = <<>>
        /\ Len(orders) = ev.n0

C13_Witness ==
    /\ ev.name = "notify_order" /\ ev.status = Accepted /\ debug
    /\ ev.ref = ev.p0 /\ ev.pst = Completed
    /\ profit_order = ev.p0

(* C14: no notified status triggers a retry or an escalation: after        *)
(* notify_order and after notify_trade no broker call was made and no      *)
(* order was created; broker calls are made by the new-bar callback only.  *)
C14_NoRetryOnNotification ==
    /\ ev.name \in {"notify_order", "notify_trade"} =>
          /\ calls = <<>>
          /\ Len(orders) = ev.n0
    /\ calls # <<>> => AfterNext

C14_Witness ==
    /\ ev.name = "notify_order" /\ ev.status = Rejected
    /\ ev.ref = ev.e0 /\ entry_order = ev.e0
    /\ calls = <<>>

(* C15: the two references are never both set: the new-bar callback sets   *)
(* the entry reference only from a flat position and the exit reference    *)
(* only from a non-flat one, and a notification sets neither.              *)
C15_NotBothReferences ==
    /\ ~(entry_order # None /\ profit_order # None)
    /\ AfterNext =>
          /\ entry_order # None => ev.size = 0
          /\ profit_order # None => ev.size # 0
    /\ ev.name \in {"notify_order", "notify_trade"} =>
          /\ entry_order = ev.e0
          /\ profit_order \in {ev.p0, None}

C15_Witness ==
    /\ AfterNext /\ ev.size # 0 /\ ev.e0 # None /\ ev.close > ev.top
    /\ entry_order = None /\ profit_order # None

(* C16: the Completed notification of the order held in the exit order     *)
(* reference clears the reference, and the new-bar callback, which the     *)
(* engine delivers after the notifications, sends no cancel request for an *)
(* order that was Completed when the callback started.                     *)
C16_NoCancelOfCompletedExit ==
    /\ (ev.name = "notify_order" /\ ev.status = Completed /\ ev.ref = ev.p0) =>
          profit_order = None
    /\ AfterNext =>
          \A k \in DOMAIN calls : calls[k].op = "cancel" =>
              \/ calls[k].ref = ev.e0 /\ ev.est # Completed
              \/ calls[k].ref = ev.p0 /\ ev.pst # Completed

C16_Witness ==
    /\ ev.name = "notify_order" /\ ev.status = Completed
    /\ ev.p0 # None /\ ev.ref = ev.p0
    /\ profit_order = None

(* The lines printed with doprint=True. *)
VisibleLines ==
    {"BUY EXECUTED", "SELL EXECUTED", "OPERATION PROFIT", "Trade Stats"}

(* C17: with debug off the only lines printed are the fill line of a       *)
(* Completed notification and the two lines of a closed trade; every other *)
(* line is printed only with debug on.                                     *)
C17_QuietWithoutDebug ==
    \A k \in DOMAIN printed :
        /\ printed[k] \notin VisibleLines => debug
        /\ printed[k] \in {"BUY EXECUTED", "SELL EXECUTED"} =>
              ev.name = "notify_order" /\ ev.status = Completed
        /\ printed[k] \in {"OPERATION PROFIT", "Trade Stats"} =>
              ev.name = "notify_trade" /\ ev.isclosed

C17_Witness ==
    /\ ~debug /\ ev.name = "notify_order" /\ ev.status = Completed
    /\ ev.e0 # None /\ ev.est = Completed
    /\ printed = <<"SELL EXECUTED">>

====
